---- MODULE Spec2Model ----
(***************************************************************************)
(* Model of hermes: a single-shot CLI that validates the Google client     *)
(* secret path, builds an authenticator, sends one aggregate query for     *)
(* today's steps, sums the int_val leaves of the response and prints the   *)
(* total.                                                                  *)
(*   src/src/main.rs                   validate_env, main                  *)
(*   src/src/providers/google/mod.rs   GoogleFitProvider                   *)
(***************************************************************************)
EXTENDS Integers, Sequences, FiniteSets, TLC

(***************************************************************************)
(* Bounds of the model.                                                    *)
(***************************************************************************)
\* total number of list elements (buckets + datasets + points + values) of a response
MaxNodes == 6
\* number of instants the wall clock can advance between the two clock reads
MaxTicks == 1
\* milliseconds in one (scaled-down) day
DayLen == 3
\* latest instant at which a run can start
MaxStart == 4

(***************************************************************************)
(* Option<T> and Result<T, E>, panics.                                     *)
(***************************************************************************)
None == << >>
Some(x) == << x >>
IsSome(o) == Len(o) = 1
IsNone(o) == Len(o) = 0
Unwrap(o) == o[1]

Ok(v) == [kind |-> "Ok", val |-> << v >>, msg |-> ""]
Panic(m) == [kind |-> "Panic", val |-> << >>, msg |-> m]
Err(e) == [kind |-> "Err", val |-> << >>, msg |-> e]
IsOk(r) == r.kind = "Ok"
OkVal(r) == r.val[1]

(***************************************************************************)
(* i32 arithmetic.                                                         *)
(***************************************************************************)
I32_MAX == 2147483647
I32_MIN == (-2147483647) - 1

\* a + b does not fit in an i32
AddOverflows(a, b) ==
    \/ (b > 0 /\ a > I32_MAX - b)
    \/ (b < 0 /\ a < I32_MIN - b)

\* two's complement a + b, computed without leaving the i32 range
WrappingAdd(a, b) ==
    IF b > 0 /\ a > I32_MAX - b THEN I32_MIN + ((a - (I32_MAX - b)) - 1)
    ELSE IF b < 0 /\ a < I32_MIN - b THEN I32_MAX - (((I32_MIN - b) - a) - 1)
    ELSE a + b

(***************************************************************************)
(* AggregateResponse: bucket -> dataset -> point -> value -> int_val,      *)
(* every level an Option.  Responses of at most MaxNodes list elements.    *)
(***************************************************************************)
LeafValues == {150, 320, I32_MAX}

Value == [int_val : {None} \cup {Some(v) : v \in LeafValues}]

ValueLists[n \in 0..(MaxNodes + 1)] ==
    IF n = 0 THEN {<< >>}
    ELSE {<<x>> \o r : x \in Value, r \in ValueLists[n - 1]}

DataPoint[n \in 0..(MaxNodes + 1)] ==
    IF n = 0 THEN {}
    ELSE {[value |-> Some(l)] : l \in ValueLists[n - 1]}
         \cup (IF n = 1 THEN {[value |-> None]} ELSE {})

PointLists[n \in 0..(MaxNodes + 1)] ==
    IF n = 0 THEN {<< >>}
    ELSE UNION {{<<x>> \o r : x \in DataPoint[w], r \in PointLists[n - w]} : w \in 1..n}

Dataset[n \in 0..(MaxNodes + 1)] ==
    IF n = 0 THEN {}
    ELSE {[point |-> Some(l)] : l \in PointLists[n - 1]}
         \cup (IF n = 1 THEN {[point |-> None]} ELSE {})

DatasetLists[n \in 0..(MaxNodes + 1)] ==
    IF n = 0 THEN {<< >>}
    ELSE UNION {{<<x>> \o r : x \in Dataset[w], r \in DatasetLists[n - w]} : w \in 1..n}

AggregateBucket[n \in 0..(MaxNodes + 1)] ==
    IF n = 0 THEN {}
    ELSE {[dataset |-> Some(l)] : l \in DatasetLists[n - 1]}
         \cup (IF n = 1 THEN {[dataset |-> None]} ELSE {})

BucketLists[n \in 0..(MaxNodes + 1)] ==
    IF n = 0 THEN {<< >>}
    ELSE UNION {{<<x>> \o r : x \in AggregateBucket[w], r \in BucketLists[n - w]} : w \in 1..n}

AggregateResponse ==
    {[bucket |-> None]}
    \cup UNION {{[bucket |-> Some(l)] : l \in BucketLists[n]} : n \in 0..MaxNodes}

(***************************************************************************)
(* get_step_count_from_resp: the lazy flat_map chain visits the response   *)
(* depth first; the first absent level met panics; collect() runs the      *)
(* whole traversal before sum() adds anything.                             *)
(***************************************************************************)
RECURSIVE MapIntVal(_)
MapIntVal(values) ==
    IF values = << >> THEN Ok(<< >>)
    ELSE IF IsNone(Head(values).int_val) THEN Panic("Invalid data value")
    ELSE LET rest == MapIntVal(Tail(values))
         IN  IF IsOk(rest) THEN Ok(<<Unwrap(Head(values).int_val)>> \o OkVal(rest))
             ELSE rest

\* slip: a point without a values list is skipped instead of failing
RECURSIVE FlatMapPoints_SkipAbsent(_)
FlatMapPoints_SkipAbsent(points) ==
    IF points = << >> THEN Ok(<< >>)
    ELSE LET here == IF IsNone(Head(points).value) THEN Ok(<< >>)
                     ELSE MapIntVal(Unwrap(Head(points).value))
         IN  IF ~IsOk(here) THEN here
             ELSE LET rest == FlatMapPoints_SkipAbsent(Tail(points))
                  IN  IF IsOk(rest) THEN Ok(OkVal(here) \o OkVal(rest)) ELSE rest

RECURSIVE FlatMapPoints(_)
FlatMapPoints(points) ==
    IF points = << >> THEN Ok(<< >>)
    ELSE IF IsNone(Head(points).value) THEN Panic("Empty datapoint")
    ELSE LET here == MapIntVal(Unwrap(Head(points).value))
         IN  IF ~IsOk(here) THEN here
             ELSE LET rest == FlatMapPoints(Tail(points))
                  IN  IF IsOk(rest) THEN Ok(OkVal(here) \o OkVal(rest)) ELSE rest

RECURSIVE FlatMapDatasets(_)
FlatMapDatasets(datasets) ==
    IF datasets = << >> THEN Ok(<< >>)
    ELSE IF IsNone(Head(datasets).point) THEN Panic("Invalid dataset")
    ELSE LET here == FlatMapPoints(Unwrap(Head(datasets).point))
         IN  IF ~IsOk(here) THEN here
             ELSE LET rest == FlatMapDatasets(Tail(datasets))
                  IN  IF IsOk(rest) THEN Ok(OkVal(here) \o OkVal(rest)) ELSE rest

RECURSIVE FlatMapBuckets(_)
FlatMapBuckets(buckets) ==
    IF buckets = << >> THEN Ok(<< >>)
    ELSE IF IsNone(Head(buckets).dataset) THEN Panic("AggregateBucket has no datapoints")
    ELSE LET here == FlatMapDatasets(Unwrap(Head(buckets).dataset))
         IN  IF ~IsOk(here) THEN here
             ELSE LET rest == FlatMapBuckets(Tail(buckets))
                  IN  IF IsOk(rest) THEN Ok(OkVal(here) \o OkVal(rest)) ELSE rest

\* .collect::<Vec<i32>>() of the chain
CollectIntVals(r) ==
    IF IsNone(r.bucket) THEN Panic("called Option::unwrap() on a None value")
    ELSE FlatMapBuckets(Unwrap(r.bucket))

\* .sum::<i32>(): with overflow checks the first overflowing addition panics,
\* without them the addition wraps
RECURSIVE SumI32(_, _, _)
SumI32(vec, acc, checks) ==
    IF vec = << >> THEN Ok(acc)
    ELSE IF AddOverflows(acc, Head(vec)) /\ checks THEN Panic("attempt to add with overflow")
    ELSE SumI32(Tail(vec), WrappingAdd(acc, Head(vec)), checks)

get_step_count_from_resp(r, checks) ==
    LET vec == CollectIntVals(r)
    IN  IF IsOk(vec) THEN SumI32(OkVal(vec), 0, checks) ELSE vec

(***************************************************************************)
(* Decimal rendering of an integer (i64::to_string, {:?} of an i32), as    *)
(* the sequence of its characters.                                         *)
(***************************************************************************)
DigitChar == <<"0", "1", "2", "3", "4", "5", "6", "7", "8", "9">>

RECURSIVE NatToString(_)
NatToString(n) ==
    IF n < 10 THEN <<DigitChar[n + 1]>>
    ELSE NatToString(n \div 10) \o <<DigitChar[(n % 10) + 1]>>

\* -n is never formed, so the most negative value is rendered too
to_string(n) ==
    IF n >= 0 THEN NatToString(n)
    ELSE LET m == -(n + 1)
             d == (m % 10) + 1
             q == IF d = 10 THEN (m \div 10) + 1 ELSE m \div 10
         IN  <<"-">> \o (IF q > 0 THEN NatToString(q) ELSE << >>) \o <<DigitChar[(d % 10) + 1]>>

(***************************************************************************)
(* The environment of a run.                                               *)
(***************************************************************************)
\* values GOOGLE_CLIENT_SECRET can carry
Paths == {"client_secret.json", "missing.json", "typo.json"}
\* the paths that exist on disk
ExistingPaths == {"client_secret.json"}
\* offsets of the local timezone from UTC, in milliseconds
UtcOffsets == {0, 1}

GOOGLE_FIT_DATA_SOURCE_ID ==
    "derived:com.google.step_count.delta:com.google.android.gms:estimated_steps"
GOOGLE_FIT_STEPS_DATATYPE_NAME == "com.google.step_count.delta"

\* Local::today().and_hms_milli(0, 0, 0, 0).timestamp_millis() read at UTC instant t
LocalMidnightMillis(t, off) ==
    LET local == t + off
    IN  (local - (local % DayLen)) - off

VARIABLES
    env_secret,        \* GOOGLE_CLIENT_SECRET: None when not set, Some(path)
    overflow_checks,   \* the build panics on integer overflow (debug) or wraps (release)
    utc_offset,        \* offset of the host's local timezone
    clock,             \* the wall clock, UTC milliseconds
    ticks,             \* instants elapsed between the two clock reads
    pc,                \* position of main
    panic_msg,         \* message of the panic that aborted the run, << >> when none
    secret_path,       \* main's secret_path
    gfit,              \* the GoogleFitProvider built by new
    auth_attempts,     \* calls of generate_auth
    token_file_used,   \* tmp_client_token.json was opened by the authenticator
    query_attempts,    \* aggregate calls sent
    ts_calls,          \* calls of generate_timestamps_now_and_midnight
    current_time,      \* generate_timestamps_now_and_midnight's current_time
    request,           \* daily_steps' request
    params,            \* daily_steps' params
    resp,              \* daily_steps' resp
    steps,             \* main's steps
    stdout,            \* lines printed
    stages             \* stages executed so far, in order

vars == <<env_secret, overflow_checks, utc_offset, clock, ticks, pc, panic_msg,
          secret_path, gfit, auth_attempts, token_file_used, query_attempts,
          ts_calls, current_time, request, params, resp, steps, stdout, stages>>

envVars == <<env_secret, overflow_checks, utc_offset>>

Init ==
    /\ env_secret \in {None} \cup {Some(p) : p \in Paths}
    /\ overflow_checks \in BOOLEAN
    /\ utc_offset \in UtcOffsets
    /\ clock \in 0..MaxStart
    /\ ticks = 0
    /\ pc = "validate_env"
    /\ panic_msg = << >>
    /\ secret_path = None
    /\ gfit = None
    /\ auth_attempts = 0
    /\ token_file_used = FALSE
    /\ query_attempts = 0
    /\ ts_calls = 0
    /\ current_time = None
    /\ request = None
    /\ params = None
    /\ resp = None
    /\ steps = None
    /\ stdout = << >>
    /\ stages = << >>

\* panic!: the run aborts with the message
Abort(m) == pc' = "panicked" /\ panic_msg' = m

(***************************************************************************)
(* main.rs                                                                 *)
(***************************************************************************)
\* slip: the variable is read with a default instead of expect
validate_env_NoPresenceCheck ==
    /\ pc = "validate_env"
    /\ stages' = Append(stages, "validate")
    /\ IF IsSome(env_secret) /\ Unwrap(env_secret) \notin ExistingPaths
         THEN Abort(<<"Invalid Google client secret path: ", Unwrap(env_secret)>>)
         ELSE pc' = "new" /\ UNCHANGED panic_msg
    /\ UNCHANGED <<envVars, clock, ticks, secret_path, gfit, auth_attempts, token_file_used,
                   query_attempts, ts_calls, current_time, request, params, resp, steps, stdout>>

\* slip: the path is not looked up on disk
validate_env_NoExistsCheck ==
    /\ pc = "validate_env"
    /\ stages' = Append(stages, "validate")
    /\ IF IsNone(env_secret)
         THEN Abort(<<"Missing env variable: GOOGLE_CLIENT_SECRET">>)
         ELSE pc' = "new" /\ UNCHANGED panic_msg
    /\ UNCHANGED <<envVars, clock, ticks, secret_path, gfit, auth_attempts, token_file_used,
                   query_attempts, ts_calls, current_time, request, params, resp, steps, stdout>>

validate_env ==
    /\ pc = "validate_env"
    /\ stages' = Append(stages, "validate")
    /\ IF IsNone(env_secret)
         THEN Abort(<<"Missing env variable: GOOGLE_CLIENT_SECRET">>)
         ELSE IF Unwrap(env_secret) \notin ExistingPaths
                THEN Abort(<<"Invalid Google client secret path: ", Unwrap(env_secret)>>)
                ELSE pc' = "new" /\ UNCHANGED panic_msg
    /\ UNCHANGED <<envVars, clock, ticks, secret_path, gfit, auth_attempts, token_file_used,
                   query_attempts, ts_calls, current_time, request, params, resp, steps, stdout>>

\* main reads the variable again and GoogleFitProvider::new validates the path
new_validate ==
    /\ pc = "new"
    /\ IF IsNone(env_secret)
         THEN Abort(<<"called Result::unwrap() on an Err value: NotPresent">>)
              /\ UNCHANGED secret_path
         ELSE /\ secret_path' = env_secret
              /\ IF Unwrap(env_secret) \notin ExistingPaths
                   THEN Abort(<<"Invalid client secret path">>)
                   ELSE pc' = "generate_auth" /\ UNCHANGED panic_msg
    /\ UNCHANGED <<envVars, clock, ticks, gfit, auth_attempts, token_file_used, query_attempts,
                   ts_calls, current_time, request, params, resp, steps, stdout, stages>>

\* slip: a failed authentication is tried once more
generate_auth_Retry ==
    /\ pc = "generate_auth"
    /\ auth_attempts' = auth_attempts + 1
    /\ stages' = IF auth_attempts = 0 THEN Append(stages, "auth") ELSE stages
    /\ \E outcome \in {"ok", "bad_secret", "auth_failed"} :
         CASE outcome = "bad_secret" ->
                /\ Abort(<<"client secret file is invalid">>)
                /\ UNCHANGED <<token_file_used, gfit>>
           [] outcome = "auth_failed" ->
                /\ IF auth_attempts = 0
                     THEN UNCHANGED <<pc, panic_msg>>
                     ELSE Abort(<<"Failed to authenticate">>)
                /\ token_file_used' = TRUE
                /\ UNCHANGED gfit
           [] outcome = "ok" ->
                /\ token_file_used' = TRUE
                /\ gfit' = Some([scopes |-> {"FitnessActivityRead"}])
                /\ pc' = "utc_now"
                /\ UNCHANGED panic_msg
    /\ UNCHANGED <<envVars, clock, ticks, secret_path, query_attempts, ts_calls,
                   current_time, request, params, resp, steps, stdout>>

\* generate_auth, then the service is built with the read-only activity scope
generate_auth ==
    /\ pc = "generate_auth"
    /\ auth_attempts' = auth_attempts + 1
    /\ stages' = Append(stages, "auth")
    /\ \E outcome \in {"ok", "bad_secret", "auth_failed"} :
         CASE outcome = "bad_secret" ->
                /\ Abort(<<"client secret file is invalid">>)
                /\ UNCHANGED <<token_file_used, gfit>>
           [] outcome = "auth_failed" ->
                /\ Abort(<<"Failed to authenticate">>)
                /\ token_file_used' = TRUE
                /\ UNCHANGED gfit
           [] outcome = "ok" ->
                /\ token_file_used' = TRUE
                /\ gfit' = Some([scopes |-> {"FitnessActivityRead"}])
                /\ pc' = "utc_now"
                /\ UNCHANGED panic_msg
    /\ UNCHANGED <<envVars, clock, ticks, secret_path, query_attempts, ts_calls,
                   current_time, request, params, resp, steps, stdout>>

(***************************************************************************)
(* daily_steps                                                             *)
(***************************************************************************)
\* generate_timestamps_now_and_midnight, first clock read: Utc::now()
utc_now ==
    /\ pc = "utc_now"
    /\ ts_calls' = ts_calls + 1
    /\ current_time' = Some(clock)
    /\ pc' = "local_today"
    /\ UNCHANGED <<envVars, clock, ticks, panic_msg, secret_path, gfit, auth_attempts,
                   token_file_used, query_attempts, request, params, resp, steps, stdout, stages>>

\* time passes between the two clock reads
tick ==
    /\ pc = "local_today"
    /\ ticks < MaxTicks
    /\ ticks' = ticks + 1
    /\ clock' = clock + 1
    /\ UNCHANGED <<envVars, pc, panic_msg, secret_path, gfit, auth_attempts, token_file_used,
                   query_attempts, ts_calls, current_time, request, params, resp, steps,
                   stdout, stages>>

\* slip: the difference is taken the other way round
generate_timestamps_SwappedDelta(now, today_read_at, off) ==
    LET current_time_utc == now
        midnight_utc == LocalMidnightMillis(today_read_at, off)
        delta == midnight_utc - current_time_utc
    IN  <<to_string(midnight_utc), to_string(current_time_utc), to_string(delta)>>

generate_timestamps_now_and_midnight(now, today_read_at, off) ==
    LET current_time_utc == now
        midnight_utc == LocalMidnightMillis(today_read_at, off)
        delta == current_time_utc - midnight_utc
    IN  <<to_string(midnight_utc), to_string(current_time_utc), to_string(delta)>>

generate_request(ts) ==
    [aggregate_by |-> <<[data_source_id |-> GOOGLE_FIT_DATA_SOURCE_ID,
                         data_type_name |-> GOOGLE_FIT_STEPS_DATATYPE_NAME]>>,
     bucket_by_time |-> [duration_millis |-> ts[3]],
     start_time_millis |-> ts[1],
     end_time_millis |-> ts[2]]

generate_params == [user_id |-> "me", fitness_params |-> None]

\* second clock read, Local::today(), then the request and the params are built
local_today ==
    /\ pc = "local_today"
    /\ request' = Some(generate_request(
                      generate_timestamps_now_and_midnight(Unwrap(current_time), clock, utc_offset)))
    /\ params' = Some(generate_params)
    /\ pc' = "aggregate"
    /\ UNCHANGED <<envVars, clock, ticks, panic_msg, secret_path, gfit, auth_attempts,
                   token_file_used, query_attempts, ts_calls, current_time, resp, steps,
                   stdout, stages>>

\* the aggregate call: a transport error returns through `?`, a response goes on
aggregate ==
    /\ pc = "aggregate"
    /\ query_attempts' = query_attempts + 1
    /\ stages' = Append(stages, "query")
    /\ \/ /\ steps' = Some(Err("transport error"))
          /\ pc' = "match_steps"
          /\ UNCHANGED resp
       \/ /\ \E r \in AggregateResponse : resp' = Some(r)
          /\ pc' = "extract"
          /\ UNCHANGED steps
    /\ UNCHANGED <<envVars, clock, ticks, panic_msg, secret_path, gfit, auth_attempts,
                   token_file_used, ts_calls, current_time, request, params, stdout>>

extract ==
    /\ pc = "extract"
    /\ stages' = Append(stages, "extract")
    /\ LET r == get_step_count_from_resp(Unwrap(resp), overflow_checks)
       IN  IF r.kind = "Panic"
             THEN Abort(<<r.msg>>) /\ UNCHANGED steps
             ELSE steps' = Some(r) /\ pc' = "match_steps" /\ UNCHANGED panic_msg
    /\ UNCHANGED <<envVars, clock, ticks, secret_path, gfit, auth_attempts, token_file_used,
                   query_attempts, ts_calls, current_time, request, params, resp, stdout>>

\* slip: a failed query is reported as zero steps
match_steps_PrintsOnErr ==
    /\ pc = "match_steps"
    /\ stdout' = Append(stdout, <<"You have taken ">>
                                \o (IF IsOk(Unwrap(steps))
                                      THEN to_string(OkVal(Unwrap(steps))) ELSE <<"0">>)
                                \o <<" steps today!">>)
    /\ stages' = Append(stages, "print")
    /\ pc' = "exit"
    /\ UNCHANGED panic_msg
    /\ UNCHANGED <<envVars, clock, ticks, secret_path, gfit, auth_attempts, token_file_used,
                   query_attempts, ts_calls, current_time, request, params, resp, steps>>

\* main's match on the result of daily_steps
match_steps ==
    /\ pc = "match_steps"
    /\ IF IsOk(Unwrap(steps))
         THEN /\ stdout' = Append(stdout, <<"You have taken ">>
                                          \o to_string(OkVal(Unwrap(steps)))
                                          \o <<" steps today!">>)
              /\ stages' = Append(stages, "print")
              /\ pc' = "exit"
              /\ UNCHANGED panic_msg
         ELSE /\ Abort(<<"Failed to retrieve steps :( ", Unwrap(steps).msg>>)
              /\ UNCHANGED <<stdout, stages>>
    /\ UNCHANGED <<envVars, clock, ticks, secret_path, gfit, auth_attempts, token_file_used,
                   query_attempts, ts_calls, current_time, request, params, resp, steps>>

Next ==
    \/ validate_env
    \/ new_validate
    \/ generate_auth
    \/ utc_now
    \/ tick
    \/ local_today
    \/ aggregate
    \/ extract
    \/ match_steps

Spec == Init /\ [][Next]_vars

(***************************************************************************)
(* Vocabulary of the properties.                                           *)
(***************************************************************************)
SeqRange(s) == {s[i] : i \in 1..Len(s)}

\* every level of the response is present
WellFormed(r) ==
    /\ IsSome(r.bucket)
    /\ \A b \in SeqRange(Unwrap(r.bucket)) :
         /\ IsSome(b.dataset)
         /\ \A d \in SeqRange(Unwrap(b.dataset)) :
              /\ IsSome(d.point)
              /\ \A p \in SeqRange(Unwrap(d.point)) :
                   /\ IsSome(p.value)
                   /\ \A v \in SeqRange(Unwrap(p.value)) : IsSome(v.int_val)

\* the lists of a well-formed response, by position
BucketsOf(r) == Unwrap(r.bucket)
DatasetsOf(r, b) == Unwrap(BucketsOf(r)[b].dataset)
PointsOf(r, b, d) == Unwrap(DatasetsOf(r, b)[d].point)
ValuesOf(r, b, d, p) == Unwrap(PointsOf(r, b, d)[p].value)

\* the positions of the int_val leaves of a well-formed response
LeafPositions(r) ==
    UNION {UNION {UNION {{<<b, d, p, v>> : v \in 1..Len(ValuesOf(r, b, d, p))}
                         : p \in 1..Len(PointsOf(r, b, d))}
                  : d \in 1..Len(DatasetsOf(r, b))}
           : b \in 1..Len(BucketsOf(r))}

LeafAt(r, pos) == Unwrap(ValuesOf(r, pos[1], pos[2], pos[3])[pos[4]].int_val)

NonNegativeLeaves(r) == \A pos \in LeafPositions(r) : LeafAt(r, pos) >= 0

\* some list of a well-formed response is empty
HasEmptyList(r) ==
    \/ Len(BucketsOf(r)) = 0
    \/ \E b \in 1..Len(BucketsOf(r)) :
         \/ Len(DatasetsOf(r, b)) = 0
         \/ \E d \in 1..Len(DatasetsOf(r, b)) :
              \/ Len(PointsOf(r, b, d)) = 0
              \/ \E p \in 1..Len(PointsOf(r, b, d)) : Len(ValuesOf(r, b, d, p)) = 0

\* the arithmetic sum of the non-negative leaves at the positions S, each counted
\* once, as <<hi, lo>> with sum = hi * 2^31 + lo and 0 <= lo < 2^31
RECURSIVE ExactSum(_, _)
ExactSum(r, S) ==
    IF S = {} THEN <<0, 0>>
    ELSE LET pos == CHOOSE x \in S : TRUE
             rest == ExactSum(r, S \ {pos})
             leaf == LeafAt(r, pos)
         IN  IF rest[2] > I32_MAX - leaf
               THEN <<rest[1] + 1, (rest[2] - (I32_MAX - leaf)) - 1>>
               ELSE <<rest[1], rest[2] + leaf>>

\* t is s with its elements in another order, elements compared by Same
Reordered(s, t, Same(_, _)) ==
    /\ Len(s) = Len(t)
    /\ \E f \in [1..Len(s) -> 1..Len(s)] :
         /\ \A i, j \in 1..Len(s) : f[i] = f[j] => i = j
         /\ \A i \in 1..Len(s) : Same(s[i], t[f[i]])

SameValue(x, y) == x = y
SamePoint(x, y) == Reordered(Unwrap(x.value), Unwrap(y.value), SameValue)
SameDataset(x, y) == Reordered(Unwrap(x.point), Unwrap(y.point), SamePoint)
SameBucket(x, y) == Reordered(Unwrap(x.dataset), Unwrap(y.dataset), SameDataset)
\* well-formed r2 is r1 with buckets, datasets, points and values permuted
Permuted(r1, r2) == Reordered(Unwrap(r1.bucket), Unwrap(r2.bucket), SameBucket)

\* value of a decimal rendering
DigitVal(c) == CHOOSE i \in 0..9 : DigitChar[i + 1] = c

RECURSIVE ParseNat(_)
ParseNat(s) ==
    IF Len(s) = 0 THEN 0
    ELSE ParseNat(SubSeq(s, 1, Len(s) - 1)) * 10 + DigitVal(s[Len(s)])

ParseInt(s) == IF Head(s) = "-" THEN -ParseNat(Tail(s)) ELSE ParseNat(s)

\* extraction has run on the response of this run
Extracted == IsSome(resp) /\ pc \in {"match_steps", "exit", "panicked"}

\* the panics of an absent level
MalformedResponse ==
    {"called Option::unwrap() on a None value", "AggregateBucket has no datapoints",
     "Invalid dataset", "Empty datapoint", "Invalid data value"}

Terminated == pc \in {"exit", "panicked"}

StageOrder == <<"validate", "auth", "query", "extract", "print">>

\* one bucket, one dataset, two points carrying 150 and 320
Example470 ==
    [bucket |-> Some(<<[dataset |-> Some(<<[point |-> Some(<<
        [value |-> Some(<<[int_val |-> Some(150)]>>)],
        [value |-> Some(<<[int_val |-> Some(320)]>>)]>>)]>>)]>>)]

(***************************************************************************)
(* Properties.                                                             *)
(***************************************************************************)

\* C1: for a well-formed response with non-negative leaves the extractor returns
\* exactly the arithmetic sum of all int_val leaves, each counted once, and the
\* result is the same for every permutation of buckets, datasets, points and values.
C1_ExactOrderIndependentSum ==
    (Extracted /\ WellFormed(Unwrap(resp)) /\ NonNegativeLeaves(Unwrap(resp))) =>
        /\ IsSome(steps)
        /\ IsOk(Unwrap(steps))
        /\ ExactSum(Unwrap(resp), LeafPositions(Unwrap(resp))) = <<0, OkVal(Unwrap(steps))>>
        /\ \A r2 \in AggregateResponse :
             (WellFormed(r2) /\ Permuted(Unwrap(resp), r2)) =>
                 get_step_count_from_resp(r2, overflow_checks)
                    = get_step_count_from_resp(Unwrap(resp), overflow_checks)

\* C2: when any level of the response is absent at any position, extraction fails
\* with the failure of a malformed response and yields no step count, neither
\* zero nor a partial sum; nothing is printed.
C2_AbsentLevelFails ==
    (IsSome(resp) /\ ~WellFormed(Unwrap(resp)) /\ pc # "extract") =>
        /\ pc = "panicked"
        /\ Len(panic_msg) = 1
        /\ panic_msg[1] \in MalformedResponse
        /\ steps = None
        /\ stdout = << >>

\* a well-formed bucket carrying 150 is followed by a bucket without datasets,
\* and the run has aborted
C2_Witness ==
    /\ pc = "panicked"
    /\ resp = Some([bucket |-> Some(<<
           [dataset |-> Some(<<[point |-> Some(<<
               [value |-> Some(<<[int_val |-> Some(150)]>>)]>>)]>>)],
           [dataset |-> None]>>)])

\* C3: when every level is present but some list is empty, extraction succeeds;
\* without any int_val leaf the result is 0; an empty list never causes the
\* failure of an absent level.
C3_EmptyListSucceeds ==
    (Extracted /\ WellFormed(Unwrap(resp)) /\ HasEmptyList(Unwrap(resp))) =>
        /\ pc # "panicked"
        /\ IsSome(steps)
        /\ IsOk(Unwrap(steps))
        /\ (LeafPositions(Unwrap(resp)) = {} => OkVal(Unwrap(steps)) = 0)

\* C4: when GOOGLE_CLIENT_SECRET is not set the run aborts in validate_env,
\* before authentication, before any query, before the token file is opened,
\* and nothing is printed.
C4_MissingEnvAbortsEarly ==
    IsNone(env_secret) =>
        /\ pc \in {"validate_env", "panicked"}
        /\ (pc = "panicked" => panic_msg = <<"Missing env variable: GOOGLE_CLIENT_SECRET">>)
        /\ auth_attempts = 0
        /\ query_attempts = 0
        /\ ~token_file_used
        /\ stdout = << >>

C4_Witness == IsNone(env_secret) /\ pc = "panicked"

\* C5: when GOOGLE_CLIENT_SECRET names a path that does not exist the run aborts
\* with validate_env's message, which carries that exact path, never with the
\* path-less message of GoogleFitProvider::validate, and neither authentication
\* nor a query is attempted.
C5_MissingPathNamed ==
    (IsSome(env_secret) /\ Unwrap(env_secret) \notin ExistingPaths) =>
        /\ pc \in {"validate_env", "panicked"}
        /\ (pc = "panicked" =>
               panic_msg = <<"Invalid Google client secret path: ", Unwrap(env_secret)>>)
        /\ panic_msg # <<"Invalid client secret path">>
        /\ auth_attempts = 0
        /\ query_attempts = 0
        /\ stdout = << >>

C5_Witness == env_secret = Some("typo.json") /\ pc = "panicked"

\* C6: every window has duration = end - start and duration >= 0, end being the
\* UTC now that was read and start the local midnight of the day of that now,
\* also when the two clock reads fall on either side of a local midnight.
C6_WindowInvariant ==
    IsSome(request) =>
        LET start_millis == ParseInt(Unwrap(request).start_time_millis)
            end_millis == ParseInt(Unwrap(request).end_time_millis)
            duration_millis == ParseInt(Unwrap(request).bucket_by_time.duration_millis)
        IN  /\ duration_millis = end_millis - start_millis
            /\ duration_millis >= 0
            /\ end_millis = Unwrap(current_time)
            /\ start_millis = LocalMidnightMillis(Unwrap(current_time), utc_offset)

\* C7: the request names exactly one aggregate-by entry, the fixed data source
\* and data type; start, end and bucket width come from one timestamp
\* computation and the width is end - start; with now = midnight the width is 0
\* and the request is still built; the params carry user id "me".
C7_SingleBucketRequest ==
    IsSome(request) =>
        LET req == Unwrap(request)
            start_millis == ParseInt(req.start_time_millis)
            end_millis == ParseInt(req.end_time_millis)
        IN  /\ Len(req.aggregate_by) = 1
            /\ req.aggregate_by[1].data_source_id
                 = "derived:com.google.step_count.delta:com.google.android.gms:estimated_steps"
            /\ req.aggregate_by[1].data_type_name = "com.google.step_count.delta"
            /\ ts_calls = 1
            /\ end_millis = Unwrap(current_time)
            /\ \E today_read_at \in Unwrap(current_time)..clock :
                 start_millis = LocalMidnightMillis(today_read_at, utc_offset)
            /\ ParseInt(req.bucket_by_time.duration_millis) = end_millis - start_millis
            /\ (end_millis = start_millis => req.bucket_by_time.duration_millis = <<"0">>)
            /\ IsSome(params)
            /\ Unwrap(params).user_id = "me"

\* a request built at local midnight: zero-width bucket
C7_Witness ==
    /\ IsSome(request)
    /\ Unwrap(request).start_time_millis = Unwrap(request).end_time_millis
    /\ Unwrap(request).bucket_by_time.duration_millis = <<"0">>

\* C8: the stages run in the order validation, authentication, query,
\* extraction, print; authentication and the query are attempted at most once;
\* once a stage has failed no later stage runs and nothing is printed.
C8_ErrorsAreTerminal ==
    /\ [](/\ Len(stages) <= Len(StageOrder)
          /\ stages = SubSeq(StageOrder, 1, Len(stages))
          /\ auth_attempts <= 1
          /\ query_attempts <= 1
          /\ (pc = "panicked" => stdout = << >> /\ panic_msg # << >>)
          /\ ((IsSome(steps) /\ ~IsOk(Unwrap(steps))) =>
                 resp = None /\ stdout = << >> /\ stages = SubSeq(StageOrder, 1, 3)))
    /\ [][pc # "panicked"]_vars

\* a run aborted after its only query failed: no extraction, nothing printed
C8_Witness ==
    /\ pc = "panicked"
    /\ query_attempts = 1
    /\ panic_msg = <<"Failed to retrieve steps :( ", "transport error">>

\* C9: a run prints a step-count line exactly once iff validation,
\* authentication, the query and extraction all succeeded, and the integer
\* printed is the extractor's sum over the response of that run; with one
\* bucket, one dataset and two points carrying 150 and 320 it prints 470.
C9_PrintsExtractedSum ==
    LET allSucceeded == /\ panic_msg = << >>
                        /\ IsSome(gfit)
                        /\ IsSome(resp)
                        /\ IsSome(steps)
                        /\ IsOk(Unwrap(steps))
    IN  /\ Len(stdout) <= 1
        /\ (~Terminated => stdout = << >>)
        /\ (Terminated => (Len(stdout) = 1 <=> allSucceeded))
        /\ (Len(stdout) = 1 =>
              LET sum == get_step_count_from_resp(Unwrap(resp), overflow_checks)
              IN  /\ IsOk(sum)
                  /\ ParseInt(SubSeq(stdout[1], 2, Len(stdout[1]) - 1)) = OkVal(sum)
                  /\ Head(stdout[1]) = "You have taken "
                  /\ stdout[1][Len(stdout[1])] = " steps today!")
        /\ ((pc = "exit" /\ resp = Some(Example470)) =>
              stdout = << <<"You have taken ", "4", "7", "0", " steps today!">> >>)

C9_Witness == pc = "exit" /\ resp = Some(Example470) /\ Len(stdout) = 1

\* C10: the step count returned for a well-formed response with non-negative
\* leaves is never negative, also when the arithmetic sum exceeds 2^31 - 1.
C10_StepCountNonNegative ==
    (Extracted /\ WellFormed(Unwrap(resp)) /\ NonNegativeLeaves(Unwrap(resp))
       /\ IsSome(steps) /\ IsOk(Unwrap(steps))) =>
        OkVal(Unwrap(steps)) >= 0
====
